---- MODULE Spec2Model ----
(***************************************************************************)
(* A model of src/libs/WaveView.ts: the WaveView scheduler (push, start,   *)
(* pause, stop, the interval callback draw, clearView) and its ViewModel   *)
(* channels (push, onDraw, drawView, calculateX, calculateY, clear).       *)
(*                                                                         *)
(* Numbers.  step and scaleRatio are fractions in the source; they are     *)
(* kept here as pairs <<numerator, denominator>>.  A channel's x is kept   *)
(* as the numerator of x over the denominator of its step, so x = -1 is    *)
(* stored as -StepDen(m).  A sample is the record [id, v]: v is the number *)
(* the source stores, id is a history tag (the sample's position in the    *)
(* stream pushed to its channel) that no operation reads.                  *)
(***************************************************************************)
EXTENDS Integers, Sequences, FiniteSets, TLC

(***************************************************************************)
(* Bounds of the model.                                                    *)
(***************************************************************************)
\* the scheduler is built with 1..MaxModels channels
MaxModels == 2
\* Spec: at most MaxPushes calls of WaveView.push, which hand over at most
\* MaxSamples samples in all
MaxPushes == 2
MaxSamples == 2
\* ChannelSpec: at most MaxEnqueues calls of ViewModel.push, which hand over
\* at most MaxEnqueued samples in all
MaxEnqueues == 4
MaxEnqueued == 6
\* a batch holds 0..MaxBatchLen samples
MaxBatchLen == 2
\* drawCount is drawn from 1..MaxDrawCount
MaxDrawCount == 2
\* maxCacheSize is drawn from 0..MaxCache
MaxCache == 2
\* the clock advances in steps of ClockStepMs, at most MaxClockSteps times
ClockStepMs == 2000
MaxClockSteps == 1

(***************************************************************************)
(* Program constants.                                                      *)
(***************************************************************************)
\* WaveView.draw: Date.now() - this.rcvTime >= 2000
IdleThresholdMs == 2000
\* the value of an unset timer (undefined / null); interval handles are > 0
NULL == 0

VARIABLES
  timer,     \* WaveView.timer: NULL or the handle of the interval
  recover,   \* WaveView.recover
  rcvTime,   \* WaveView.rcvTime
  clear,     \* WaveView.clear
  models,    \* WaveView.models: a sequence of ViewModel records
  timers,    \* environment: the handles of the intervals that are live
  now,       \* environment: Date.now()
  pushes,    \* history: number of push calls made
  pushed,    \* history: pushed[i] = number of samples enqueued on channel i
  drawn,     \* history: drawn[i] = ids of the samples channel i drew, in order
  lastOp     \* history: the last operation, its arguments and what it did

vars == <<timer, recover, rcvTime, clear, models, timers, now,
          pushes, pushed, drawn, lastOp>>

Min(a, b) == IF a < b THEN a ELSE b

(***************************************************************************)
(* ViewModel                                                               *)
(***************************************************************************)

\* the sample values a channel driven directly is given: the median of the
\* channel and a value off it
SampleValues(median) == {median, median - 5}

\* the sample values the channels of a scheduler are given: off the median,
\* so that drawing moves y off the base line
SchedulerSampleValues(median) == {median - 5}

\* ViewModelOptions; an optional number that is not given is 0, which the
\* constructor's `options.f ? options.f : default` treats as undefined
Options(drawCount, maxCacheSize) ==
  [width |-> 2, height |-> 8, clearView |-> FALSE, median |-> 512,
   drawCount |-> drawCount, baseLine |-> 0, step |-> <<0, 1>>,
   scaleRatio |-> <<3, 5>>, maxCacheSize |-> maxCacheSize,
   startX |-> 0, startY |-> 0, padding |-> 0]

\* the options a channel driven directly is built with
OptionChoices ==
  {Options(d, c) : d \in 1..MaxDrawCount, c \in 0..MaxCache}

\* the options the channels of a scheduler are built with: the defaults
\* (drawCount 1, no catch-up) or the largest drawCount and maxCacheSize
SchedulerOptionChoices == {Options(0, 0), Options(MaxDrawCount, MaxCache)}

\* constructor(options)
ViewModel(options) ==
  LET height   == options.height
      baseLine == IF options.baseLine # 0 THEN options.baseLine
                                          ELSE height \div 2
  IN  [waveQ        |-> <<>>,
       curPoints    |-> <<>>,   \* null; line 299 reads null and [] alike
       width        |-> options.width,
       height       |-> height,
       clearView    |-> IF options.clearView THEN options.clearView ELSE TRUE,
       drawCount    |-> IF options.drawCount # 0 THEN options.drawCount ELSE 1,
       median       |-> options.median,
       baseLine     |-> baseLine,
       step         |-> IF options.step[1] # 0 THEN options.step ELSE <<1, 1>>,
       maxCacheSize |-> IF options.maxCacheSize # 0
                          THEN options.maxCacheSize ELSE 0,
       startX       |-> options.startX,
       startY       |-> options.startY,
       padding      |-> IF options.padding # 0 THEN options.padding ELSE 16,
       scaleRatio   |-> IF options.scaleRatio[1] # 0
                          THEN options.scaleRatio ELSE <<1, 1>>,
       x            |-> -(IF options.step[1] # 0 THEN options.step[2] ELSE 1),
       y            |-> baseLine,
       \* history: the clearView that the constructor was given
       asked        |-> options.clearView]

StepDen(m) == m.step[2]

\* a ViewModel.push that puts the batch at the head of the queue
ModelPushFront(m, points) == [m EXCEPT !.waveQ = <<points>> \o @]

\* ViewModel.push(points)
ModelPush(m, points) == [m EXCEPT !.waveQ = Append(@, points)]

\* a calculateX that advances by one pixel whatever the step
calculateXUnit(m) == m.x + StepDen(m)

\* calculateX(): this.x + this.step
calculateX(m) == m.x + m.step[1]

\* calculateY(point): Math.floor(baseLine + (median - point) * scaleRatio + 0.5)
calculateY(m, point) ==
  LET num == m.scaleRatio[1]
      den == m.scaleRatio[2]
  IN  (2 * den * m.baseLine + 2 * (m.median - point) * num + den)
        \div (2 * den)

\* the loop of drawView: size times, x = calculateX(), y = calculateY(shift())
\* (each pass works on the value c the pass before it left)
RECURSIVE drawLoop(_, _)
drawLoop(m, size) ==
  IF size = 0 THEN m
  ELSE CHOOSE r \in
         {drawLoop(c, size - 1) :
            c \in {[m EXCEPT !.x = calculateX(m),
                             !.y = calculateY(m, Head(m.curPoints).v),
                             !.curPoints = Tail(@)]}} : TRUE

\* a drawView that wraps only when x is beyond the width
drawViewWrapLate(m) ==
  LET size == Min(Len(m.curPoints), m.drawCount)
      d    == drawLoop(m, size)
  IN  IF d.x > d.width * StepDen(d) THEN [d EXCEPT !.x = -StepDen(d)] ELSE d

\* drawView(ctx, this.curPoints, render): the channel afterwards
drawView(m) ==
  LET size == Min(Len(m.curPoints), m.drawCount)
      d    == drawLoop(m, size)
  IN  IF d.x >= d.width * StepDen(d) THEN [d EXCEPT !.x = -StepDen(d)] ELSE d

\* the ids of the samples that drawView(m) draws
drawViewIds(m) ==
  LET size == Min(Len(m.curPoints), m.drawCount)
  IN  [k \in 1..size |-> m.curPoints[k].id]

\* onDraw(ctx, render): [m |-> the channel afterwards, flag |-> the value
\* returned, ids |-> the ids drawn so far]
RECURSIVE onDrawLoop(_, _)
onDrawLoop(m, ids) ==
  LET hasCur == Len(m.curPoints) > 0
      d      == IF hasCur THEN drawView(m) ELSE m
      ids2   == IF hasCur THEN ids \o drawViewIds(m) ELSE ids
  IN  IF hasCur /\ (d.maxCacheSize = 0 \/ Len(d.waveQ) < d.maxCacheSize)
        THEN [m |-> d, flag |-> TRUE, ids |-> ids2]
      ELSE IF Len(d.waveQ) = 0
        THEN [m |-> d, flag |-> FALSE, ids |-> ids2]
      ELSE CHOOSE r \in
             {onDrawLoop(c, i) :
                c \in {[d EXCEPT !.curPoints = Head(d.waveQ),
                                 !.waveQ = Tail(@)]},
                i \in {ids2}} : TRUE

\* onDraw that stops catching up one batch early
onDrawOneEarly(m) ==
  LET r == onDrawLoop([m EXCEPT
                         !.maxCacheSize = IF @ = 0 THEN 0 ELSE @ + 1], <<>>)
  IN  [r EXCEPT !.m.maxCacheSize = m.maxCacheSize]

\* onDraw that catches up even when maxCacheSize is 0
onDrawAlwaysCatchUp(m) ==
  LET r == onDrawLoop([m EXCEPT
                         !.maxCacheSize = IF @ = 0 THEN 1 ELSE @], <<>>)
  IN  [r EXCEPT !.m.maxCacheSize = m.maxCacheSize]

onDraw(m) == CHOOSE r \in {onDrawLoop(c, <<>>) : c \in {m}} : TRUE

\* a clear that sets the cursor to the left edge if it is already reset
ModelClearFlip(m) ==
  [m EXCEPT !.x = IF @ = -StepDen(m) THEN 0 ELSE -StepDen(m),
            !.y = m.baseLine]

\* ViewModel.clear(ctx): the channel afterwards
ModelClear(m) == [m EXCEPT !.x = -StepDen(m), !.y = m.baseLine]

(***************************************************************************)
(* WaveView                                                                *)
(***************************************************************************)

\* the scheduler fields that startTimer and stopTimer read and write
Sched == [timer |-> timer, timers |-> timers, recover |-> recover]

\* setInterval returns a handle that is not in use
FreshHandle(s) == CHOOSE h \in 1..(Cardinality(s.timers) + 1) : h \notin s.timers

\* a startTimer that sets a new interval without looking at this.timer
startTimerUnguarded(s, r) ==
  [timer   |-> FreshHandle(s),
   timers  |-> s.timers \cup {FreshHandle(s)},
   recover |-> r]

\* startTimer(recover)
startTimer(s, r) ==
  IF s.timer = NULL
    THEN [timer   |-> FreshHandle(s),
          timers  |-> s.timers \cup {FreshHandle(s)},
          recover |-> r]
    ELSE s

\* stopTimer(recover)
stopTimer(s, r) ==
  IF s.timer # NULL
    THEN [timer |-> NULL, timers |-> s.timers \ {s.timer}, recover |-> r]
    ELSE s

\* a push that restarts a running scheduler instead of a stopped one
ShouldRestartInverted(s) == s.timer # NULL /\ s.recover

\* a push that restarts whenever the timer is unset
ShouldRestartAlways(s) == s.timer = NULL

\* push: !this.timer && this.recover
ShouldRestart(s) == s.timer = NULL /\ s.recover

\* an idle test that never finds the view idle
IsIdleNever(drawFlag, elapsed) == FALSE

\* an idle test that does not look at what the channels returned
IsIdleWhileDrawing(drawFlag, elapsed) == elapsed >= IdleThresholdMs

\* an idle test that needs more than the threshold
IsIdleStrict(drawFlag, elapsed) == ~drawFlag /\ elapsed > IdleThresholdMs

\* draw: !drawFlag, and Date.now() - this.rcvTime >= 2000
IsIdle(drawFlag, elapsed) == ~drawFlag /\ elapsed >= IdleThresholdMs

SetSched(s) ==
  /\ timer' = s.timer
  /\ timers' = s.timers
  /\ recover' = s.recover

\* lastOp: op names the operation, waves is what push was given (enqueue: its
\* one batch), flags[i] is what channel i's onDraw
\* returned, cleared holds the channels whose clear() was called and erased
\* those whose rectangle clear() erased, raised is the channel in whose
\* drawing the canvas raised an error (0: none), threw tells that the
\* error left the operation and again that the operation before this one
\* was the same
NoOp ==
  [op |-> "init", waves |-> <<>>, flags |-> <<>>, cleared |-> {},
   erased |-> {}, raised |-> 0, threw |-> FALSE, again |-> FALSE]

RECURSIVE SumLen(_)
SumLen(waves) ==
  IF Len(waves) = 0 THEN 0 ELSE Len(Head(waves)) + SumLen(Tail(waves))

\* the batches a producer may hand over: 0..MaxBatchLen samples of value v
Batches(v) == {[j \in 1..k |-> v] : k \in 0..MaxBatchLen}

\* batch b of values, tagged with the ids that follow the n samples before it
Tagged(b, n) == [k \in 1..Len(b) |-> [id |-> n + k, v |-> b[k]]]

\* the sequences of k batch lengths, each 0..MaxBatchLen, that sum to at most
\* budget
RECURSIVE Lengths(_, _)
Lengths(k, budget) ==
  IF k = 0 THEN {<<>>}
  ELSE UNION {{<<l>> \o rest : rest \in Lengths(k - 1, budget - l)} :
                l \in 0..Min(MaxBatchLen, budget)}

\* the arguments of push: up to one batch more than there are channels, at
\* most budget samples in all, the samples of one call all of one value
WaveInputs(budget) ==
  {[i \in 1..Len(ls) |-> [j \in 1..ls[i] |-> v]] :
     ls \in UNION {Lengths(k, budget) : k \in 0..(Len(models) + 1)},
     v \in SchedulerSampleValues(models[1].median)}

RECURSIVE Sum(_)
Sum(f) == IF Len(f) = 0 THEN 0 ELSE Head(f) + Sum(Tail(f))

\* push(waves)
push(waves) ==
  /\ pushes < MaxPushes
  /\ Sum(pushed) + SumLen(waves) <= MaxSamples
  /\ pushes' = pushes + 1
  /\ lastOp' = [NoOp EXCEPT !.op = "push", !.waves = waves]
  /\ IF Len(waves) # 0
       THEN LET size == Min(Len(models), Len(waves))
            IN  /\ rcvTime' = now
                /\ models' = [i \in 1..Len(models) |->
                               IF i <= size
                                 THEN ModelPush(models[i],
                                                Tagged(waves[i], pushed[i]))
                                 ELSE models[i]]
                /\ pushed' = [i \in 1..Len(models) |->
                               IF i <= size THEN pushed[i] + Len(waves[i])
                                            ELSE pushed[i]]
                /\ IF ShouldRestart(Sched)
                     THEN SetSched(startTimer(Sched, TRUE))
                     ELSE UNCHANGED <<timer, timers, recover>>
       ELSE UNCHANGED <<rcvTime, models, pushed, timer, timers, recover>>
  /\ UNCHANGED <<clear, now, drawn>>

\* start()
start ==
  /\ SetSched(startTimer(Sched, TRUE))
  /\ lastOp' = [NoOp EXCEPT !.op = "start"]
  /\ UNCHANGED <<rcvTime, clear, models, now, pushes, pushed, drawn>>

\* pause()
pause ==
  /\ SetSched(stopTimer(Sched, TRUE))
  /\ lastOp' = [NoOp EXCEPT !.op = "pause"]
  /\ UNCHANGED <<rcvTime, clear, models, now, pushes, pushed, drawn>>

\* stop()
stop ==
  /\ SetSched(stopTimer(Sched, FALSE))
  /\ lastOp' = [NoOp EXCEPT !.op = "stop"]
  /\ UNCHANGED <<rcvTime, clear, models, now, pushes, pushed, drawn>>

\* clearView(): the channels afterwards (this.clear is set by the caller)
clearView(ms) == [i \in 1..Len(ms) |-> ModelClear(ms[i])]

\* draw(), called by the interval while it is live; the branch for one
\* channel and the loop over several make the same calls
draw ==
  /\ timer # NULL
  /\ timer \in timers
  /\ \E res \in {[i \in 1..Len(models) |-> onDraw(models[i])]} :
     LET after    == [i \in 1..Len(models) |-> res[i].m]
         drawFlag == \E i \in 1..Len(models) : res[i].flag
         idle     == IsIdle(drawFlag, now - rcvTime)
     IN  /\ drawn' = [i \in 1..Len(models) |-> drawn[i] \o res[i].ids]
         /\ IF idle
              THEN /\ models' = clearView(after)
                   /\ clear' = TRUE
                   /\ SetSched(stopTimer(Sched, TRUE))
              ELSE /\ models' = after
                   /\ UNCHANGED <<clear, timer, timers, recover>>
         /\ lastOp' = [NoOp EXCEPT
                         !.op = "draw",
                         !.flags = [i \in 1..Len(models) |-> res[i].flag],
                         !.cleared = IF idle THEN 1..Len(models) ELSE {},
                         !.erased = IF idle
                                      THEN {i \in 1..Len(models) :
                                              models[i].clearView}
                                      ELSE {}]
  /\ UNCHANGED <<rcvTime, now, pushes, pushed>>

\* time passes
Advance ==
  /\ now < IdleThresholdMs + MaxClockSteps * ClockStepMs
  /\ now' = now + ClockStepMs
  /\ lastOp' = [NoOp EXCEPT !.op = "advance"]
  /\ UNCHANGED <<timer, recover, rcvTime, clear, models, timers,
                 pushes, pushed, drawn>>

\* new WaveView(canvas, init, interval) with init.onInit filling this.models
\* with n channels; Date.now() is far beyond the idle threshold after the
\* epoch, which is where rcvTime = 0 lies
InitWith(n, options) ==
  /\ timer = NULL
  /\ recover = TRUE
  /\ rcvTime = 0
  /\ clear = FALSE
  /\ models = [i \in 1..n |-> ViewModel(options)]
  /\ pushed = [i \in 1..n |-> 0]
  /\ drawn = [i \in 1..n |-> <<>>]
  /\ timers = {}
  /\ now = IdleThresholdMs
  /\ pushes = 0
  /\ lastOp = NoOp

\* one channel of default options, or 1..MaxModels channels that catch up
Init ==
  \/ InitWith(1, Options(0, 0))
  \/ \E n \in 1..MaxModels : InitWith(n, Options(MaxDrawCount, MaxCache))

Next ==
  \/ \E waves \in WaveInputs(MaxSamples - Sum(pushed)) : push(waves)
  \/ start
  \/ pause
  \/ stop
  \/ draw
  \/ Advance

Spec == Init /\ [][Next]_vars

\* time passes for as long as the last push is less than the idle threshold
\* ago: draw reads the clock only to compare Date.now() - this.rcvTime with
\* the threshold, so any later time is the same to it
Elapse ==
  /\ now - rcvTime < IdleThresholdMs
  /\ now' = now + ClockStepMs
  /\ lastOp' = [NoOp EXCEPT !.op = "advance"]
  /\ UNCHANGED <<timer, recover, rcvTime, clear, models, timers,
                 pushes, pushed, drawn>>

\* a scheduler of MaxModels channels that catch up
LiveInit == InitWith(MaxModels, Options(MaxDrawCount, MaxCache))

LiveNext ==
  \/ \E waves \in WaveInputs(MaxSamples - Sum(pushed)) : push(waves)
  \/ start
  \/ pause
  \/ stop
  \/ draw
  \/ Elapse

\* the scheduler under a browser that keeps calling the callback of a live
\* interval and whose clock keeps advancing
LiveSpec ==
  /\ LiveInit
  /\ [][LiveNext]_vars
  /\ WF_vars(draw)
  /\ WF_vars(Elapse)

(***************************************************************************)
(* The scheduler on a canvas whose context may raise an error.             *)
(***************************************************************************)

\* onDraw up to its first call of drawView: batches are taken from the queue
\* until currentBatch has samples or the queue is empty
RECURSIVE untilDrawView(_)
untilDrawView(m) ==
  IF Len(m.curPoints) > 0 \/ Len(m.waveQ) = 0 THEN m
  ELSE untilDrawView([m EXCEPT !.curPoints = Head(m.waveQ),
                               !.waveQ = Tail(@)])

\* draw() in which ctx.clearRect raises in the first drawView of channel k:
\* the channels before k have run onDraw, channel k has got as far as the
\* call, and the error leaves onDraw, the loop and draw, which catch nothing
drawRaise(k) ==
  /\ timer # NULL
  /\ timer \in timers
  /\ k \in 1..Len(models)
  /\ Len(untilDrawView(models[k]).curPoints) > 0
  /\ \E res \in {[i \in 1..(k - 1) |-> onDraw(models[i])]} :
       /\ models' = [i \in 1..Len(models) |->
                       IF i < k THEN res[i].m
                       ELSE IF i = k THEN untilDrawView(models[i])
                       ELSE models[i]]
       /\ drawn' = [i \in 1..Len(models) |->
                      IF i < k THEN drawn[i] \o res[i].ids ELSE drawn[i]]
       /\ lastOp' = [NoOp EXCEPT
                       !.op = "draw",
                       !.flags = [i \in 1..(k - 1) |-> res[i].flag],
                       !.raised = k,
                       !.threw = TRUE]
  /\ UNCHANGED <<timer, timers, recover, rcvTime, clear, now, pushes, pushed>>

SurfaceNext ==
  \/ \E waves \in WaveInputs(MaxSamples - Sum(pushed)) : push(waves)
  \/ start
  \/ pause
  \/ stop
  \/ draw
  \/ \E k \in 1..Len(models) : drawRaise(k)
  \/ Advance

SurfaceSpec == Init /\ [][SurfaceNext]_vars

(***************************************************************************)
(* One channel driven directly: ViewModel.push and ViewModel.onDraw on a   *)
(* ViewModel that no scheduler ticks.                                      *)
(***************************************************************************)

\* models[1].push(points)
Enqueue(points) ==
  /\ pushes < MaxEnqueues
  /\ pushed[1] + Len(points) <= MaxEnqueued
  /\ pushes' = pushes + 1
  /\ models' = [models EXCEPT ![1] = ModelPush(@, Tagged(points, pushed[1]))]
  /\ pushed' = [pushed EXCEPT ![1] = @ + Len(points)]
  /\ lastOp' = [NoOp EXCEPT !.op = "enqueue", !.waves = <<points>>]
  /\ UNCHANGED <<timer, recover, rcvTime, clear, timers, now, drawn>>

\* models[1].onDraw(ctx)
Tick ==
  /\ LET res == onDraw(models[1])
     IN  /\ models' = [models EXCEPT ![1] = res.m]
         /\ drawn' = [drawn EXCEPT ![1] = @ \o res.ids]
         /\ lastOp' = [NoOp EXCEPT !.op = "onDraw", !.flags = <<res.flag>>]
  /\ UNCHANGED <<timer, recover, rcvTime, clear, timers, now, pushes, pushed>>

ChannelInit == \E options \in OptionChoices : InitWith(1, options)

ChannelNext ==
  \/ \E v \in SampleValues(models[1].median) :
       \E points \in Batches(v) : Enqueue(points)
  \/ Tick

ChannelSpec == ChannelInit /\ [][ChannelNext]_vars

\* the options of a channel whose sweep is looked at: a base line of its
\* own, steps of half a pixel and of a pixel and a half, with and without
\* catch-up
SweepOptionChoices ==
  {[Options(d, c) EXCEPT !.baseLine = 100, !.step = st] :
     d \in 1..MaxDrawCount, c \in {0, MaxCache}, st \in {<<1, 2>>, <<3, 2>>}}

SweepInit == \E options \in SweepOptionChoices : InitWith(1, options)

\* one channel of fractional step driven directly
SweepSpec == SweepInit /\ [][ChannelNext]_vars

\* models[1].clear(ctx)
Clear ==
  /\ models' = [models EXCEPT ![1] = ModelClear(@)]
  /\ lastOp' = [NoOp EXCEPT
                  !.op = "clear",
                  !.cleared = {1},
                  !.erased = IF models[1].clearView THEN {1} ELSE {},
                  !.again = (lastOp.op = "clear")]
  /\ UNCHANGED <<timer, recover, rcvTime, clear, timers, now, pushes, pushed,
                 drawn>>

\* the options of a channel that is cleared: with and without clearView
ClearOptionChoices ==
  {[o EXCEPT !.clearView = v] : o \in SchedulerOptionChoices, v \in BOOLEAN}

ClearInit == \E options \in ClearOptionChoices : InitWith(1, options)

ClearNext ==
  \/ \E v \in SampleValues(models[1].median) :
       \E points \in Batches(v) : Enqueue(points)
  \/ Tick
  \/ Clear

\* one channel driven directly and cleared by its owner
ClearSpec == ClearInit /\ [][ClearNext]_vars

\* the widths and heights a caller may pass: negative, zero and positive
Widths == {-1, 0, 2}
Heights == {-1, 0, 8}

\* options of the given geometry, the rest as in Options
GeometryOptions(width, height) ==
  [Options(MaxDrawCount, 0) EXCEPT !.width = width, !.height = height]

\* new ViewModel(options) for every geometry a caller may pass
GeometryInit ==
  \E width \in Widths : \E height \in Heights :
    InitWith(1, GeometryOptions(width, height))

\* one channel of any geometry driven directly
GeometrySpec == GeometryInit /\ [][ChannelNext]_vars

(***************************************************************************)
(* Properties                                                              *)
(***************************************************************************)

\* the number of samples channel m still holds
Buffered(m) == Len(m.curPoints) + SumLen(m.waveQ)

Channels == 1..Len(models)

\* C1: whenever a channel holds no buffered sample, the number of samples
\* it has drawn equals the number of samples pushed to it
C1_NoSampleDropped ==
  \A i \in Channels :
    Buffered(models[i]) = 0 => Len(drawn[i]) = pushed[i]

\* C2: a channel draws its samples in arrival order: the ids it has drawn
\* grow strictly, so none is drawn twice or before an earlier one
C2_DrawnInArrivalOrder ==
  \A i \in Channels :
    \A j, k \in 1..Len(drawn[i]) : j < k => drawn[i][j] < drawn[i][k]

\* C2 witness: three samples of two or more batches were drawn
C2_Witness ==
  /\ lastOp.op = "onDraw"
  /\ pushes >= 2
  /\ Len(drawn[1]) >= 3

\* C3: after a tick of a channel with maxCacheSize = k > 0, the queue holds
\* fewer than k batches or the channel holds no buffered sample
C3_BacklogBelowThreshold ==
  lastOp.op = "onDraw" =>
    \A i \in Channels :
      models[i].maxCacheSize > 0 =>
        \/ Len(models[i].waveQ) < models[i].maxCacheSize
        \/ Buffered(models[i]) = 0

\* C3 witness: maxCacheSize = 1, two batches of two samples were enqueued
\* and one tick drew the first sample of each
C3_Witness ==
  /\ lastOp.op = "onDraw"
  /\ models[1].maxCacheSize = 1
  /\ pushes = 2
  /\ pushed[1] = 4
  /\ drawn[1] = <<1, 3>>

\* C4: after stop(), whatever the state it was called in, the scheduler is
\* not running and autoRecover is false
C4_StopClearsRecover ==
  lastOp.op = "stop" => timer = NULL /\ recover = FALSE

\* C5: while the scheduler is not running and autoRecover is false, a push
\* enqueues its batches and leaves it not running with autoRecover false,
\* and only start() makes it run again
C5_NoAutoResumeAfterStop ==
  [][(timer = NULL /\ ~recover) =>
       /\ lastOp'.op = "push" =>
            /\ timer' = NULL /\ ~recover'
            /\ lastOp'.waves # <<>> =>
                 \A i \in Channels :
                   i <= Len(lastOp'.waves) =>
                     Len(models'[i].waveQ) = Len(models[i].waveQ) + 1
       /\ timer' # NULL => lastOp'.op = "start"]_vars

\* C5 witness: a push that carried samples has just returned and the
\* scheduler is still stopped with autoRecover false
C5_Witness ==
  /\ lastOp.op = "push"
  /\ lastOp.waves # <<>>
  /\ Sum(pushed) > 0
  /\ timer = NULL
  /\ ~recover

\* C6: after pause(), whatever the state it was called in, the scheduler is
\* not running and autoRecover is true
C6_PauseSetsRecover ==
  lastOp.op = "pause" => timer = NULL /\ recover = TRUE

\* C7: after start(), whatever the state it was called in, the scheduler is
\* running, autoRecover is true and exactly one interval is live
C7_StartRuns ==
  lastOp.op = "start" =>
    /\ timer # NULL
    /\ recover = TRUE
    /\ timers = {timer}

\* C7 witness: start() has returned in a scheduler that an idle tick had
\* stopped before
C7_Witness ==
  /\ lastOp.op = "start"
  /\ clear
  /\ timer # NULL

\* what push(waves) does to the channels: batch i goes to the tail of
\* channel i's queue for i up to the smaller of the two lengths, every other
\* channel and every channel's currentBatch and cursor stay as they are
Routed(waves) ==
  /\ Len(models') = Len(models)
  /\ \A i \in Channels :
       IF i <= Min(Len(models), Len(waves))
         THEN /\ Len(models'[i].waveQ) = Len(models[i].waveQ) + 1
              /\ SubSeq(models'[i].waveQ, 1, Len(models[i].waveQ))
                   = models[i].waveQ
              /\ [k \in 1..Len(waves[i]) |->
                    models'[i].waveQ[Len(models'[i].waveQ)][k].v] = waves[i]
              /\ [models'[i] EXCEPT !.waveQ = models[i].waveQ] = models[i]
         ELSE models'[i] = models[i]

\* C8: push(batches) appends batches[i] to the tail of channel i's queue for
\* i < min(channels, batches) and changes nothing else of any channel,
\* whichever of the two is longer
C8_PushRoutesBatches ==
  [][lastOp'.op = "push" => Routed(lastOp'.waves)]_vars

\* C8 witness: of two channels, a push of one batch reached the first only
C8_Witness ==
  /\ lastOp.op = "push"
  /\ Len(lastOp.waves) = 1
  /\ Len(models) = 2
  /\ Len(models[1].waveQ) = 2
  /\ pushed[1] > 0
  /\ Len(models[2].waveQ) = 0

\* what push does to the scheduler: lastArrivalTime is the time of the call,
\* a stopped scheduler with autoRecover runs, any other keeps its running flag
PushSchedules ==
  /\ rcvTime' = now
  /\ (timer = NULL /\ recover) => timer' # NULL
  /\ ~(timer = NULL /\ recover) => (timer' = NULL) = (timer = NULL)

\* C9 as stated: every push(batches), for any batches, sets lastArrivalTime
\* and starts a stopped scheduler whose autoRecover is true
C9_EveryPushSchedules ==
  [][lastOp'.op = "push" => PushSchedules]_vars

\* C9 amended: every push(batches) of at least one batch does so, and a push
\* of no batch changes neither lastArrivalTime nor the running flag
C9_NonEmptyPushSchedules ==
  [][lastOp'.op = "push" =>
       IF lastOp'.waves # <<>>
         THEN PushSchedules
         ELSE rcvTime' = rcvTime /\ timer' = timer /\ recover' = recover]_vars

\* C9 witness: a push of batches has restarted a scheduler that an idle tick
\* had stopped, at a later time than the push before it
C9_Witness ==
  /\ lastOp.op = "push"
  /\ lastOp.waves # <<>>
  /\ clear
  /\ timer # NULL
  /\ rcvTime = now
  /\ now > IdleThresholdMs

\* C10: a tick in which a channel produced output, or less than 2000 ms after
\* the last push, clears no channel and leaves the scheduler running; a tick
\* without output, 2000 ms or more after the last push and before any idle
\* clear, calls clear on every channel and stops the scheduler with
\* autoRecover true
C10_IdleClear ==
  [][lastOp'.op = "draw" =>
       LET out    == \E i \in Channels : lastOp'.flags[i]
           recent == now - rcvTime < IdleThresholdMs
       IN  /\ (out \/ recent) =>
                /\ lastOp'.cleared = {}
                /\ clear' = clear
                /\ timer' = timer /\ timer' # NULL
           /\ (~out /\ ~recent /\ ~clear) =>
                /\ lastOp'.cleared = Channels
                /\ \A i \in Channels :
                     /\ models'[i].x = -StepDen(models[i])
                     /\ models'[i].y = models[i].baseLine
                /\ clear'
                /\ timer' = NULL /\ recover']_vars

\* C10 witness: two channels drew samples, then an idle tick cleared both
C10_Witness ==
  /\ lastOp.op = "draw"
  /\ Len(models) = 2
  /\ lastOp.cleared = {1, 2}
  /\ Len(drawn[1]) > 0
  /\ Len(drawn[2]) > 0
  /\ timer = NULL
  /\ now - rcvTime = IdleThresholdMs

\* C11: once an idle tick has cleared the channels, no later tick clears them
\* again before new data is pushed; stated for the behaviours without any
\* push, in which this.clear tells that the idle clear has happened
C11_ClearedOncePerIdlePeriod ==
  [][(pushes' = 0 /\ clear /\ lastOp'.op = "draw") =>
       lastOp'.cleared = {}]_vars

\* the scheduler is at rest after an idle clear: the last step was a tick that
\* cleared every channel, every queue and currentBatch is empty, every cursor
\* is reset and the scheduler is stopped with autoRecover true
Rested ==
  /\ lastOp.op = "draw"
  /\ lastOp.cleared = Channels
  /\ \A i \in Channels :
       /\ Len(models[i].waveQ) = 0
       /\ Len(models[i].curPoints) = 0
       /\ models[i].x = -StepDen(models[i])
       /\ models[i].y = models[i].baseLine
  /\ timer = NULL
  /\ recover

\* the last step was a tick, the passing of time or a start() call: no
\* push, pause or stop
Quiet == lastOp.op \in {"start", "draw", "advance"}

\* C12: if the scheduler is running and from then on nothing but ticks,
\* the passing of time and further start() calls happen (no push, pause or
\* stop), then eventually every queue and currentBatch is empty, every
\* channel has been cleared and the scheduler is stopped with autoRecover
\* true; that is, a running scheduler leads to one at rest or to a push,
\* pause or stop
C12_EventuallyRested ==
  (timer # NULL /\ Quiet) ~> (Rested \/ ~Quiet)

\* C12 witness: data arrived after the clock had advanced, every sample of
\* it was drawn, time passed on and an idle tick put the scheduler at rest
C12_Witness ==
  /\ Rested
  /\ Sum(pushed) = MaxSamples
  /\ \A i \in Channels : Len(drawn[i]) = pushed[i]
  /\ rcvTime > IdleThresholdMs
  /\ now - rcvTime >= IdleThresholdMs

\* C13: in a scheduler of several channels, when the canvas raises an error
\* while one channel is drawn, onDraw has still been called on every other
\* channel in that tick and the error does not leave draw
C13_SurfaceErrorIsolated ==
  (lastOp.op = "draw" /\ lastOp.raised # 0 /\ Len(models) > 1) =>
    /\ ~lastOp.threw
    /\ \A i \in Channels \ {lastOp.raised} : i \in DOMAIN lastOp.flags

\* C14: construction with a non-positive width or height fails, so that no
\* channel with width <= 0 or height <= 0 exists to be ticked: every channel
\* that a tick has drawn on has a positive width and a positive height
C14_NoChannelOfBadGeometry ==
  \A i \in Channels :
    (lastOp.op = "onDraw" /\ Len(drawn[i]) > 0) =>
      models[i].width > 0 /\ models[i].height > 0

\* C15: enqueue of an empty batch leaves the channel as it is, so that no
\* queue ever holds an empty batch
C15_NoEmptyBatchQueued ==
  \A i \in Channels :
    \A j \in 1..Len(models[i].waveQ) : Len(models[i].waveQ[j]) > 0

\* C16: clear erases the channel's rectangle if and only if the channel was
\* constructed with clearView true, and resets the cursor in either case
C16_ErasedIffClearView ==
  lastOp.op = "clear" =>
    /\ (1 \in lastOp.erased) <=> models[1].asked
    /\ models[1].x = -StepDen(models[1])
    /\ models[1].y = models[1].baseLine

\* C17: clear leaves the cursor at x = -1, y = baseLine, and a clear that
\* follows a clear with no enqueue or tick in between leaves the cursor
\* exactly as the first left it
C17_ClearIdempotent ==
  [][lastOp'.op = "clear" =>
       /\ models'[1].x = -StepDen(models[1])
       /\ models'[1].y = models[1].baseLine
       /\ lastOp.op = "clear" =>
            /\ models'[1].x = models[1].x
            /\ models'[1].y = models[1].y]_vars

\* C17 witness: a tick drew samples, which moved the cursor, and clear has
\* been called twice in a row since, with samples still buffered
C17_Witness ==
  /\ lastOp.op = "clear"
  /\ lastOp.again
  /\ Len(drawn[1]) > 0
  /\ Buffered(models[1]) > 0
  /\ models[1].x = -StepDen(models[1])
  /\ models[1].y = models[1].baseLine

\* the x that the slice drawView(m) draws leaves before the wrap test: the
\* cursor advanced by one step for each sample drawn
SliceEnd(m) == m.x + Min(Len(m.curPoints), m.drawCount) * m.step[1]

\* drawView resets x to -1 if and only if the slice left x >= width
WrapsExactly(m) ==
  drawView(m).x = IF SliceEnd(m) >= m.width * StepDen(m)
                    THEN -StepDen(m)
                    ELSE SliceEnd(m)

\* C18: with step > 0, after every tick the cursor has x = -1 or x < width,
\* and whatever currentBatch a channel reaches, the slice drawn from it
\* resets x to -1 when it left x >= width and leaves x where the slice ended
\* when that is below the width
C18_SweepWrap ==
  \A i \in Channels :
    /\ models[i].step[1] > 0
    /\ \/ models[i].x = -StepDen(models[i])
       \/ models[i].x < models[i].width * StepDen(models[i])
    /\ WrapsExactly(models[i])
    /\ WrapsExactly(untilDrawView(models[i]))

\* C18 witness: with a step of 1.5 and a width of 2 the second sample took x
\* to the width, x was reset, and a tick has drawn the third sample from -1
C18_Witness ==
  /\ lastOp.op = "onDraw"
  /\ models[1].step = <<3, 2>>
  /\ Len(drawn[1]) = 3
  /\ models[1].x = -StepDen(models[1]) + models[1].step[1]

\* the scenario of the claim: width 300, median 512, baseLine 100, step 0.5,
\* scaleRatio 0.6, drawCount 8, maxCacheSize 0
ScenarioChannel ==
  ViewModel([Options(8, 0) EXCEPT !.width = 300, !.baseLine = 100,
                                  !.step = <<1, 2>>])

\* one tick of the scenario channel after a batch of eight samples of 512
ScenarioTick ==
  onDraw(ModelPush(ScenarioChannel,
                   [k \in 1..8 |-> [id |-> k, v |-> 512]])).m

\* a channel without catch-up whose cursor is fresh and which holds one
\* batch of at most drawCount samples, all equal to the median, that fits
\* before the width
FreshWithMedianBatch(m) ==
  /\ m.maxCacheSize = 0
  /\ m.x = -StepDen(m)
  /\ m.y = m.baseLine
  /\ Len(m.curPoints) = 0
  /\ Len(m.waveQ) = 1
  /\ Len(m.waveQ[1]) <= m.drawCount
  /\ \A k \in 1..Len(m.waveQ[1]) : m.waveQ[1][k].v = m.median
  /\ m.x + Len(m.waveQ[1]) * m.step[1] < m.width * StepDen(m)

\* C19: one tick of such a channel leaves y = baseLine and x advanced by the
\* number of samples times the step; in the scenario, y = 100 and x has
\* advanced by 4
C19_MedianBatchTick ==
  [][(lastOp'.op = "onDraw" /\ FreshWithMedianBatch(models[1])) =>
       /\ models'[1].y = models[1].baseLine
       /\ models'[1].x = models[1].x
                           + Len(models[1].waveQ[1]) * models[1].step[1]
       /\ ScenarioTick.y = 100
       /\ ScenarioTick.x = ScenarioChannel.x + 4 * StepDen(ScenarioChannel)
     ]_vars

\* C19 witness: a new channel of step 0.5 without catch-up was given one
\* batch of two samples of the median, and one tick has drawn both
C19_Witness ==
  /\ lastOp.op = "onDraw"
  /\ models[1].maxCacheSize = 0
  /\ models[1].step = <<1, 2>>
  /\ models[1].x = -StepDen(models[1]) + 2 * models[1].step[1]
  /\ models[1].y = models[1].baseLine
  /\ Len(drawn[1]) = 2
  /\ pushed[1] = 2
  /\ pushes = 1
  /\ Buffered(models[1]) = 0

\* C20: a tick returns true if and only if it has drawn at least one sample
C20_TrueIffDrawn ==
  [][lastOp'.op = "onDraw" =>
       \A i \in Channels :
         lastOp'.flags[i] <=> (Len(drawn'[i]) > Len(drawn[i]))]_vars

\* the ids of the samples of batch b
BatchIds(b) == {b[k].id : k \in 1..Len(b)}

\* the number of non-empty batches in queue q
NonEmptyBatches(q) == Cardinality({j \in 1..Len(q) : Len(q[j]) > 0})

\* C21: with maxCacheSize = 0 a tick draws at most drawCount samples, all of
\* them from one batch (the currentBatch it found, or else one batch of the
\* queue), and takes at most one non-empty batch off the queue, none if
\* currentBatch had samples
C21_OneBatchPerTick ==
  [][(lastOp'.op = "onDraw" /\ models[1].maxCacheSize = 0) =>
       LET m   == models[1]
           new == {drawn'[1][k] : k \in (Len(drawn[1]) + 1)..Len(drawn'[1])}
       IN  /\ Len(drawn'[1]) - Len(drawn[1]) <= m.drawCount
           /\ \/ new \subseteq BatchIds(m.curPoints)
              \/ /\ Len(m.curPoints) = 0
                 /\ \E j \in 1..Len(m.waveQ) : new \subseteq BatchIds(m.waveQ[j])
              \/ new = {}
           /\ NonEmptyBatches(models'[1].waveQ) >= NonEmptyBatches(m.waveQ) - 1
           /\ Len(m.curPoints) > 0 => models'[1].waveQ = m.waveQ]_vars

\* C21 witness: with drawCount 2 and no catch-up, a tick has drawn the one
\* sample of the first batch and left the batch behind it in the queue
C21_Witness ==
  /\ lastOp.op = "onDraw"
  /\ models[1].maxCacheSize = 0
  /\ models[1].drawCount = 2
  /\ drawn[1] = <<1>>
  /\ Len(models[1].waveQ) = 1
  /\ Len(models[1].waveQ[1]) > 0

\* C22: a channel's onDraw returns false only when its queue and its
\* currentBatch are empty afterwards, so whenever a tick clears for idleness
\* every channel's queue and currentBatch are empty
C22_NoIdleClearWithBacklog ==
  lastOp.op = "draw" =>
    /\ \A i \in Channels :
         ~lastOp.flags[i] =>
           Len(models[i].waveQ) = 0 /\ Len(models[i].curPoints) = 0
    /\ lastOp.cleared # {} =>
         \A i \in Channels :
           Len(models[i].waveQ) = 0 /\ Len(models[i].curPoints) = 0

\* C22 witness: a channel that draws one sample a tick was given two, both
\* were drawn, and a tick has cleared the view the idle threshold or longer
\* after the push
C22_Witness ==
  /\ lastOp.op = "draw"
  /\ lastOp.cleared = Channels
  /\ models[1].drawCount = 1
  /\ pushed[1] = 2
  /\ Len(drawn[1]) = 2
  /\ rcvTime > 0
  /\ now - rcvTime >= IdleThresholdMs

====
